---------------------------- MODULE Spec2Model ----------------------------
(***************************************************************************)
(* Model of the ChessGame component (src/unnamed/part_000): a React client *)
(* component that keeps one GameState object, lets a timer effect play one *)
(* move of a chess.js game per delay, and offers start / pause / reset /   *)
(* speed commands.                                                         *)
(*                                                                         *)
(* Two layers are modelled:                                                *)
(*   - the chess.js object the component calls (new Chess(), new           *)
(*     Chess(fen), fen(), moves(), move(), turn(), isGameOver(),           *)
(*     isCheckmate(), isDraw()), as far as the component uses it;          *)
(*   - the component itself: its state, the queue of state updates React   *)
(*     holds between a setGameState call and the render that applies it,   *)
(*     the pending timers, and the effect that arms and clears them.       *)
(***************************************************************************)
EXTENDS Integers, Sequences, FiniteSets, Bags, TLC

(***************************************************************************)
(* Bounds of the exploration (not program constants).                      *)
(***************************************************************************)
\* Plies explored beyond the end of a line of Repertoire, with every move
\* the policy can return.
FreePlies == 1
\* Longest queue of not yet rendered state updates that is explored.
MaxQueue == 3

(***************************************************************************)
(* chess.js: squares and pieces                                            *)
(***************************************************************************)
Squares == 0..63
File(s) == s % 8
Rank(s) == s \div 8
Sq(f, r) == r * 8 + f
NoSquare == 0 - 1

FileChars == <<"a", "b", "c", "d", "e", "f", "g", "h">>
RankChars == <<"1", "2", "3", "4", "5", "6", "7", "8">>
algebraic(s) == FileChars[File(s) + 1] \o RankChars[Rank(s) + 1]

Empty == [color |-> "-", type |-> "-"]
Piece(c, t) == [color |-> c, type |-> t]
swapColor(c) == IF c = "w" THEN "b" ELSE "w"
Upper(t) == CASE t = "p" -> "P" [] t = "n" -> "N" [] t = "b" -> "B"
              [] t = "r" -> "R" [] t = "q" -> "Q" [] t = "k" -> "K"

BackRank == <<"r", "n", "b", "q", "k", "b", "n", "r">>

\* The placement of DEFAULT_POSITION, rnbqkbnr/pppppppp/8/8/8/8/PPPPPPPP/RNBQKBNR.
StartBoard ==
    [s \in Squares |->
        CASE Rank(s) = 0 -> Piece("w", BackRank[File(s) + 1])
          [] Rank(s) = 1 -> Piece("w", "p")
          [] Rank(s) = 6 -> Piece("b", "p")
          [] Rank(s) = 7 -> Piece("b", BackRank[File(s) + 1])
          [] OTHER -> Empty]

KnightOffsets == {<<1, 2>>, <<2, 1>>, <<2, -1>>, <<1, -2>>,
                  <<-1, -2>>, <<-2, -1>>, <<-2, 1>>, <<-1, 2>>}
KingOffsets == {<<1, 0>>, <<1, 1>>, <<0, 1>>, <<-1, 1>>,
                <<-1, 0>>, <<-1, -1>>, <<0, -1>>, <<1, -1>>}
RookDirs == {<<1, 0>>, <<-1, 0>>, <<0, 1>>, <<0, -1>>}
BishopDirs == {<<1, 1>>, <<1, -1>>, <<-1, 1>>, <<-1, -1>>}

\* The square one offset away, or NoSquare when that leaves the board.
Step(s, d) ==
    LET f == File(s) + d[1]
        r == Rank(s) + d[2]
    IN  IF f \in 0..7 /\ r \in 0..7 THEN Sq(f, r) ELSE NoSquare

\* The squares along a ray from s, up to and including the first occupied one.
RECURSIVE RaySquares(_, _, _)
RaySquares(board, s, d) ==
    IF Step(s, d) = NoSquare THEN {}
    ELSE IF board[Step(s, d)] # Empty THEN {Step(s, d)}
    ELSE {Step(s, d)} \cup RaySquares(board, Step(s, d), d)

\* Chess._attacked(color, square): does a piece of `color` attack `sq`?
attacked(board, color, sq) ==
    \/ \E d \in KnightOffsets :
          Step(sq, d) # NoSquare /\ board[Step(sq, d)] = Piece(color, "n")
    \/ \E d \in KingOffsets :
          Step(sq, d) # NoSquare /\ board[Step(sq, d)] = Piece(color, "k")
    \/ \E d \in {<<-1, IF color = "w" THEN -1 ELSE 1>>, <<1, IF color = "w" THEN -1 ELSE 1>>} :
          Step(sq, d) # NoSquare /\ board[Step(sq, d)] = Piece(color, "p")
    \/ \E d \in RookDirs : \E t \in RaySquares(board, sq, d) :
          board[t].color = color /\ board[t].type \in {"r", "q"}
    \/ \E d \in BishopDirs : \E t \in RaySquares(board, sq, d) :
          board[t].color = color /\ board[t].type \in {"b", "q"}

\* Chess._kings[color]
kingSquare(board, color) == CHOOSE s \in Squares : board[s] = Piece(color, "k")

\* Chess._isKingAttacked(color)
isKingAttacked(board, color) ==
    \E k \in {kingSquare(board, color)} : attacked(board, swapColor(color), k)

(***************************************************************************)
(* chess.js: move generation                                               *)
(***************************************************************************)
\* An internal move, with the fields of chess.js's move object.
Move(color, from, to, piece, captured, promotion, flags) ==
    [color |-> color, from |-> from, to |-> to, piece |-> piece,
     captured |-> captured, promotion |-> promotion, flags |-> flags]

Promotions == {"q", "r", "b", "n"}

pawnMoves(g, s) ==
    LET us == g.turn
        them == swapColor(us)
        dir == IF us = "w" THEN 1 ELSE -1
        second == IF us = "w" THEN 1 ELSE 6
        last == IF us = "w" THEN 7 ELSE 0
        one == Step(s, <<0, dir>>)
        two == Step(s, <<0, 2 * dir>>)
        push == IF one # NoSquare /\ g.board[one] = Empty
                THEN IF Rank(one) = last
                     THEN {Move(us, s, one, "p", "-", p, "np") : p \in Promotions}
                     ELSE {Move(us, s, one, "p", "-", "-", "n")}
                ELSE {}
        big == IF /\ Rank(s) = second
                  /\ g.board[one] = Empty
                  /\ g.board[two] = Empty
               THEN {Move(us, s, two, "p", "-", "-", "b")}
               ELSE {}
        takes(df) ==
            LET t == Step(s, <<df, dir>>)
            IN  IF t = NoSquare THEN {}
                ELSE IF g.board[t].color = them
                THEN IF Rank(t) = last
                     THEN {Move(us, s, t, "p", g.board[t].type, p, "cp") : p \in Promotions}
                     ELSE {Move(us, s, t, "p", g.board[t].type, "-", "c")}
                ELSE IF t = g.epSquare
                THEN {Move(us, s, t, "p", "p", "-", "e")}
                ELSE {}
    IN  push \cup big \cup takes(-1) \cup takes(1)

\* A move of a knight, bishop, rook, queen or king to square t.
pieceMove(g, s, t) ==
    IF g.board[t] = Empty
    THEN Move(g.turn, s, t, g.board[s].type, "-", "-", "n")
    ELSE Move(g.turn, s, t, g.board[s].type, g.board[t].type, "-", "c")

stepMoves(g, s, offsets) ==
    {pieceMove(g, s, Step(s, d)) :
        d \in {e \in offsets : Step(s, e) # NoSquare /\ g.board[Step(s, e)].color # g.turn}}

slideMoves(g, s, dirs) ==
    {pieceMove(g, s, t) :
        t \in {u \in UNION {RaySquares(g.board, s, d) : d \in dirs} :
                  g.board[u].color # g.turn}}

castlingMoves(g) ==
    LET us == g.turn
        them == swapColor(us)
        from == Sq(4, IF us = "w" THEN 0 ELSE 7)
        kside == IF /\ "k" \in g.castling[us]
                    /\ g.board[from + 1] = Empty
                    /\ g.board[from + 2] = Empty
                    /\ ~attacked(g.board, them, from)
                    /\ ~attacked(g.board, them, from + 1)
                    /\ ~attacked(g.board, them, from + 2)
                 THEN {Move(us, from, from + 2, "k", "-", "-", "k")}
                 ELSE {}
        qside == IF /\ "q" \in g.castling[us]
                    /\ g.board[from - 1] = Empty
                    /\ g.board[from - 2] = Empty
                    /\ g.board[from - 3] = Empty
                    /\ ~attacked(g.board, them, from)
                    /\ ~attacked(g.board, them, from - 1)
                    /\ ~attacked(g.board, them, from - 2)
                 THEN {Move(us, from, from - 2, "k", "-", "-", "q")}
                 ELSE {}
    IN  kside \cup qside

pseudoMoves(g) ==
    castlingMoves(g) \cup
    UNION {LET t == g.board[s].type
           IN  CASE t = "p" -> pawnMoves(g, s)
                 [] t = "n" -> stepMoves(g, s, KnightOffsets)
                 [] t = "k" -> stepMoves(g, s, KingOffsets)
                 [] t = "b" -> slideMoves(g, s, BishopDirs)
                 [] t = "r" -> slideMoves(g, s, RookDirs)
                 [] t = "q" -> slideMoves(g, s, RookDirs \cup BishopDirs)
           : s \in {u \in Squares : g.board[u].color = g.turn}}

\* The placement after a move (the board part of Chess._makeMove).
movePieces(board, m) ==
    LET moved == IF m.promotion # "-" THEN Piece(m.color, m.promotion)
                 ELSE board[m.from]
        b1 == [board EXCEPT ![m.from] = Empty, ![m.to] = moved]
    IN  CASE m.flags = "e" ->
               [b1 EXCEPT ![Sq(File(m.to), Rank(m.from))] = Empty]
          [] m.flags = "k" ->
               [b1 EXCEPT ![m.to + 1] = Empty, ![m.to - 1] = Piece(m.color, "r")]
          [] m.flags = "q" ->
               [b1 EXCEPT ![m.to - 2] = Empty, ![m.to + 1] = Piece(m.color, "r")]
          [] OTHER -> b1

\* Does the move leave the mover's king, which stands on k before it, attacked?
exposesKing(g, m, k) ==
    \E b \in {movePieces(g.board, m)} :
        attacked(b, swapColor(g.turn), IF m.piece = "k" THEN m.to ELSE k)

\* Chess._moves({legal: true}): the moves that do not leave the own king attacked.
legalMoves(g) ==
    UNION {{m \in pseudoMoves(g) : ~exposesKing(g, m, k)} :
              k \in {kingSquare(g.board, g.turn)}}

hasLegalMove(g) ==
    \E k \in {kingSquare(g.board, g.turn)} :
        \E m \in pseudoMoves(g) : ~exposesKing(g, m, k)

(***************************************************************************)
(* chess.js: the Chess object                                              *)
(*                                                                         *)
(* A Chess object holds the six FEN fields and, beside them, the record of *)
(* the positions it has been through since it was constructed or loaded    *)
(* (chess.js counts them to answer isThreefoldRepetition).                 *)
(***************************************************************************)
\* What two positions must share to count as a repetition.
positionKey(g) ==
    [board |-> g.board, turn |-> g.turn, castling |-> g.castling, epSquare |-> g.epSquare]

\* Chess.fen(): the six fields, and nothing else of the object.
fen(g) ==
    [board |-> g.board, turn |-> g.turn, castling |-> g.castling,
     epSquare |-> g.epSquare, halfMoves |-> g.halfMoves, moveNumber |-> g.moveNumber]

\* new Chess(fen): Chess.load() clears the object and starts its position
\* record afresh with the loaded position.
\* A constructor that does not take the halfmove clock from the FEN.
ChessFromFenWithoutClock(f) ==
    [board |-> f.board, turn |-> f.turn, castling |-> f.castling,
     epSquare |-> f.epSquare, halfMoves |-> 0, moveNumber |-> f.moveNumber,
     positions |-> <<[board |-> f.board, turn |-> f.turn, castling |-> f.castling,
                      epSquare |-> f.epSquare]>>]

ChessFromFen(f) ==
    [board |-> f.board, turn |-> f.turn, castling |-> f.castling,
     epSquare |-> f.epSquare, halfMoves |-> f.halfMoves, moveNumber |-> f.moveNumber,
     positions |-> <<[board |-> f.board, turn |-> f.turn, castling |-> f.castling,
                      epSquare |-> f.epSquare]>>]

DEFAULT_POSITION ==
    [board |-> StartBoard, turn |-> "w",
     castling |-> [w |-> {"k", "q"}, b |-> {"k", "q"}],
     epSquare |-> NoSquare, halfMoves |-> 0, moveNumber |-> 1]

\* new Chess()
NewChess == ChessFromFen(DEFAULT_POSITION)

\* The castling rights after a move: a king move gives up both, a move from
\* or a capture on a rook's home square gives up that side.
castlingAfter(g, m) ==
    LET us == m.color
        them == swapColor(us)
        home(c) == IF c = "w" THEN 0 ELSE 7
        rookSide(c, s) == CASE s = Sq(0, home(c)) -> {"q"}
                            [] s = Sq(7, home(c)) -> {"k"}
                            [] OTHER -> {}
        mine == IF m.piece = "k" THEN {} ELSE g.castling[us] \ rookSide(us, m.from)
        theirs == g.castling[them] \ rookSide(them, m.to)
    IN  [c \in {"w", "b"} |-> IF c = us THEN mine ELSE theirs]

\* Chess._makeMove(move) followed by the position count of Chess.move().
makeMove(g, m) ==
    CHOOSE after \in
        {[board |-> b, turn |-> swapColor(g.turn), castling |-> c, epSquare |-> e,
          halfMoves |-> IF m.piece = "p" \/ m.captured # "-" THEN 0 ELSE g.halfMoves + 1,
          moveNumber |-> IF g.turn = "b" THEN g.moveNumber + 1 ELSE g.moveNumber,
          positions |-> Append(g.positions,
                               [board |-> b, turn |-> swapColor(g.turn),
                                castling |-> c, epSquare |-> e])] :
            b \in {movePieces(g.board, m)},
            c \in {castlingAfter(g, m)},
            e \in {IF m.flags = "b"
                   THEN Sq(File(m.to), (Rank(m.from) + Rank(m.to)) \div 2)
                   ELSE NoSquare}} : TRUE

turn(g) == g.turn

isCheck(g) == isKingAttacked(g.board, g.turn)
isCheckmate(g) == isCheck(g) /\ ~hasLegalMove(g)
isStalemate(g) == ~isCheck(g) /\ ~hasLegalMove(g)

\* Dark or light: the colour of a square, for the same-coloured-bishops rule.
squareColor(s) == (File(s) + Rank(s)) % 2

isInsufficientMaterial(g) ==
    LET occupied == {s \in Squares : g.board[s] # Empty}
        bishops == {s \in occupied : g.board[s].type = "b"}
        knights == {s \in occupied : g.board[s].type = "n"}
        n == Cardinality(occupied)
    IN  \/ n = 2
        \/ n = 3 /\ (Cardinality(bishops) = 1 \/ Cardinality(knights) = 1)
        \/ /\ n = Cardinality(bishops) + 2
           /\ \A s, t \in bishops : squareColor(s) = squareColor(t)

\* How often the object has recorded its current position.
positionCount(g) ==
    Cardinality({i \in 1..Len(g.positions) : g.positions[i] = positionKey(g)})

isThreefoldRepetition(g) == positionCount(g) >= 3

isDraw(g) ==
    \/ g.halfMoves >= 100
    \/ isStalemate(g)
    \/ isInsufficientMaterial(g)
    \/ isThreefoldRepetition(g)

isGameOver(g) == isCheckmate(g) \/ isStalemate(g) \/ isDraw(g)

(***************************************************************************)
(* chess.js: standard algebraic notation                                   *)
(***************************************************************************)
\* What tells a piece's move from another such piece's move to the same
\* square: the file, else the rank, else the whole square of departure.
getDisambiguator(m, legal) ==
    LET others == {o \in legal : /\ o.piece = m.piece
                                 /\ o.to = m.to
                                 /\ o.from # m.from}
        sameRank == {o \in others : Rank(o.from) = Rank(m.from)}
        sameFile == {o \in others : File(o.from) = File(m.from)}
    IN  IF others = {} THEN ""
        ELSE IF sameRank # {} /\ sameFile # {} THEN algebraic(m.from)
        ELSE IF sameFile # {} THEN RankChars[Rank(m.from) + 1]
        ELSE FileChars[File(m.from) + 1]

\* Chess._moveToSan(move, moves)
moveToSan(g, m, legal) ==
    (CASE m.flags = "k" -> "O-O"
       [] m.flags = "q" -> "O-O-O"
       [] OTHER ->
            (IF m.piece # "p"
             THEN Upper(m.piece) \o getDisambiguator(m, legal) ELSE "")
            \o (IF m.captured # "-"
                THEN (IF m.piece = "p" THEN FileChars[File(m.from) + 1] ELSE "") \o "x"
                ELSE "")
            \o algebraic(m.to)
            \o (IF m.promotion # "-" THEN "=" \o Upper(m.promotion) ELSE ""))
    \o (CHOOSE suffix \in
            {IF isCheck(after) THEN (IF hasLegalMove(after) THEN "+" ELSE "#") ELSE "" :
                after \in {makeMove(g, m)}} : TRUE)

\* The legal moves with the notation Chess.moves() lists them under.
sanMoves(g) ==
    UNION {{[san |-> moveToSan(g, m, legal), move |-> m] : m \in legal} :
              legal \in {legalMoves(g)}}

\* Chess.moves(): the notations of the legal moves.
moves(g) == {sm.san : sm \in sanMoves(g)}

\* String.prototype.includes
includes(s, sub) ==
    \E i \in 1..(Len(s) - Len(sub) + 1) : SubSeq(s, i, i + Len(sub) - 1) = sub

(***************************************************************************)
(* The component                                                           *)
(***************************************************************************)
VARIABLES
    gameState,  \* the GameState the last render committed (what is displayed)
    baseState,  \* the state React applies the queued updates to
    queue,      \* setGameState updates that no render has applied yet, in call order
    timers,     \* the pending setTimeout callbacks, a bag of their closures
    cleanup,    \* what the last effect's cleanup clears: a bag of at most one timer
    step,       \* (history variable) the handler or React step that ran last,
                \* and what the session was like when it ran
    pausedAt    \* (history variable) while a pause is in effect, the game that
                \* was displayed when Pause was clicked; the new game otherwise

vars == <<gameState, baseState, queue, timers, cleanup, step, pausedAt>>

\* Values the speed handler is called with. The range input offers 500..5000;
\* the handler itself takes any number, so values outside are drawn too.
SpeedInputs == {250, 3000, 5250}

\* Outcomes of the Math.random() that decides the center tier, in tenths.
Rolls == {0, 8}

\* Openings that are explored (each move must still be one the policy can
\* return on the board it is played on); after a line ends, FreePlies further
\* plies are explored with every move the policy can return.
Repertoire ==
    { <<"Nf3", "Nf6", "Ng1", "Ng8", "Nf3", "Nf6", "Ng1", "Ng8", "e4", "d5">>,
      <<"f3", "e5", "g4", "Qh4#">>,
      <<"e4", "Nf6", "e5", "d5">> }

IsPrefix(s, t) == Len(s) <= Len(t) /\ SubSeq(t, 1, Len(s)) = s

\* The first n plies of the game in which the knights go out and back.
Shuffle(n) == [i \in 1..n |-> <<"Nf3", "Nf6", "Ng1", "Ng8">>[((i - 1) % 4) + 1]]

\* A game the policy can play that leaves White with three knights, on e4,
\* g4 and e8, against the bare king, with no capture on the board.
ThreeKnightsGame ==
    <<"b3", "h5", "c4", "g5", "Qc2", "Na6", "h3", "Rh7",
       "Qxh7", "Nh6", "Qxf7+", "Nxf7", "e3", "g4", "hxg4", "hxg4",
       "a4", "b6", "Na3", "d6", "Bb2", "c6", "c5", "dxc5",
       "Bxa6", "Bxa6", "f3", "gxf3", "Nxf3", "Qxd2+", "Kxd2", "e6",
       "Be5", "Nxe5", "Nxe5", "Bb5", "axb5", "cxb5", "Nxb5", "c4",
       "bxc4", "Bh6", "Rxh6", "a5", "Rxa5", "Rxa5", "Rxe6+", "Kf8",
       "Rxb6", "Rxb5", "cxb5", "Kg7", "g3", "Kf8", "e4", "Ke8",
       "g4", "Kd8", "g5", "Kc8", "g6", "Kc7", "g7", "Kxb6",
       "g8=N", "Kxb5", "Kc3", "Kc5", "Ng4", "Kb5", "e5", "Ka4",
       "N8f6", "Kb5", "e6", "Kc6", "Ne4", "Kb7", "e7", "Ka6",
       "e8=N", "Ka7">>

\* Games taken up after the plies `played`: from there `line` is explored,
\* and FreePlies further plies after it. The lines of LiveGames end the game.
LiveGames ==
    { [played |-> <<"e4", "e5", "Qh5">>, line |-> <<"Ke7", "Qxe5#">>],
      [played |-> Shuffle(88), line |-> Shuffle(12)] }

PolicyGames == { [played |-> ThreeKnightsGame, line |-> <<>>] }

Continuations == LiveGames \cup PolicyGames

Explored(history) ==
    \/ \E line \in Repertoire :
          \/ IsPrefix(history, line)
          \/ IsPrefix(line, history) /\ Len(history) <= Len(line) + FreePlies
    \/ \E c \in Continuations :
          /\ IsPrefix(c.played, history)
          /\ \/ IsPrefix(history, c.played \o c.line)
             \/ /\ IsPrefix(c.played \o c.line, history)
                /\ Len(history) <= Len(c.played) + Len(c.line) + FreePlies

\* useState's initial value, and the object resetGame sets.
InitialGameState ==
    [game |-> NewChess,
     gameHistory |-> <<>>,
     isGameActive |-> FALSE,
     currentPlayer |-> "white",
     gameSpeed |-> 2000,
     capturedPieces |-> [white |-> <<>>, black |-> <<>>]]

(***************************************************************************)
(* generateAIMove                                                          *)
(***************************************************************************)
captureMoves(possibleMoves) == {m \in possibleMoves : includes(m, "x")}

centerMoves(possibleMoves) ==
    {m \in possibleMoves : \/ includes(m, "e4") \/ includes(m, "e5")
                           \/ includes(m, "d4") \/ includes(m, "d5")}

\* A policy without the capture tier.
generateAIMoveWithoutCaptureTier(possibleMoves, roll) ==
    UNION {IF center # {} /\ roll > 7 THEN center ELSE possibleMoves :
              center \in {centerMoves(possibleMoves)}}

\* The array generateAIMove indexes with Math.floor(Math.random() * length):
\* any of its members can be returned. `roll` is the Math.random() of the
\* center test, in tenths. The caller returns null for an empty move list.
generateAIMove(possibleMoves, roll) ==
    UNION {IF captures # {} THEN captures
           ELSE IF center # {} /\ roll > 7 THEN center
           ELSE possibleMoves :
              captures \in {captureMoves(possibleMoves)},
              center \in {centerMoves(possibleMoves)}}

(***************************************************************************)
(* The state updates                                                       *)
(***************************************************************************)
\* A move update that leaves currentPlayer as it was.
moveUpdateKeepingPlayer(prev, u) ==
    [prev EXCEPT !.game = u.game,
                 !.gameHistory = Append(prev.gameHistory, u.move),
                 !.capturedPieces = u.capturedPieces]

\* A move update that leaves the history as it was.
moveUpdateWithoutHistory(prev, u) ==
    [prev EXCEPT !.game = u.game,
                 !.currentPlayer = IF turn(u.game) = "w" THEN "white" ELSE "black",
                 !.capturedPieces = u.capturedPieces]

\* setGameState(prev => ({...prev, game: newGame, gameHistory: [...], ...}))
moveUpdate(prev, u) ==
    [prev EXCEPT !.game = u.game,
                 !.gameHistory = Append(prev.gameHistory, u.move),
                 !.currentPlayer = IF turn(u.game) = "w" THEN "white" ELSE "black",
                 !.capturedPieces = u.capturedPieces]

startUpdate(prev) == [prev EXCEPT !.isGameActive = TRUE]

pauseUpdate(prev) == [prev EXCEPT !.isGameActive = FALSE]

speedUpdate(prev, newSpeed) == [prev EXCEPT !.gameSpeed = newSpeed]

\* A reset that keeps the game on the board.
resetUpdateKeepingBoard == [InitialGameState EXCEPT !.game = gameState.game]

\* A reset that keeps the history and the capture lists.
resetUpdateKeepingHistory ==
    [InitialGameState EXCEPT !.gameHistory = gameState.gameHistory,
                             !.capturedPieces = gameState.capturedPieces]

\* setGameState({game: new Chess(), ...})
resetUpdate == InitialGameState

applyUpdate(prev, u) ==
    CASE u.type = "move" -> moveUpdate(prev, u)
      [] u.type = "start" -> startUpdate(prev)
      [] u.type = "pause" -> pauseUpdate(prev)
      [] u.type = "speed" -> speedUpdate(prev, u.speed)
      [] u.type = "reset" -> resetUpdate

\* React applies the queued updates in the order of the calls.
RECURSIVE applyQueue(_, _)
applyQueue(state, q) ==
    IF q = <<>> THEN state ELSE applyQueue(applyUpdate(state, Head(q)), Tail(q))

(***************************************************************************)
(* The move effect                                                         *)
(***************************************************************************)
\* The effect's dependency list. gameState.capturedPieces is compared by
\* identity: it is a new object exactly after a move (the FEN changes too)
\* and after a reset (which leaves the game inactive, with no timer armed
\* before or after), so it never decides by itself whether a timer exists.
deps(s) == <<fen(s.game), s.isGameActive, s.gameSpeed>>

\* The closure of the callback the effect hands to setTimeout.
timerOf(s) == [game |-> s.game, delay |-> s.gameSpeed]

\* An effect body without the game-over test.
armedWhileActive(s) ==
    IF ~s.isGameActive THEN EmptyBag ELSE SetToBag({timerOf(s)})

\* The effect body: the timers it arms for the committed state s.
armed(s) ==
    IF ~s.isGameActive \/ isGameOver(s.game) THEN EmptyBag
    ELSE SetToBag({timerOf(s)})

\* A commit whose effect has no cleanup.
CommitWithoutCleanup(old, new) ==
    IF deps(new) = deps(old)
    THEN UNCHANGED <<timers, cleanup>>
    ELSE /\ timers' = timers (+) armed(new)
         /\ cleanup' = armed(new)

\* A commit from state `old` to state `new`: when a dependency changed, the
\* previous effect's cleanup runs (clearTimeout) and the effect runs again.
Commit(old, new) ==
    IF deps(new) = deps(old)
    THEN UNCHANGED <<timers, cleanup>>
    ELSE /\ timers' = (timers (-) cleanup) (+) armed(new)
         /\ cleanup' = armed(new)

(***************************************************************************)
(* Actions                                                                 *)
(***************************************************************************)
\* The status the display derives from a state.
Status(s) ==
    IF isGameOver(s.game) THEN "finished"
    ELSE IF s.isGameActive THEN "active"
    ELSE IF s.gameHistory = <<>> THEN "idle"
    ELSE "paused"

\* The record of a step: its name, and the status, the number of plies played
\* and the number of pending timers of the session it ran in.
Ran(name) ==
    /\ step' = [name |-> name,
                from |-> Status(gameState),
                plies |-> Len(gameState.gameHistory),
                pending |-> BagCardinality(timers)]
    /\ pausedAt' = CASE name = "pause" -> gameState.game
                      [] name \in {"start", "reset"} -> NewChess
                      [] OTHER -> pausedAt

Init ==
    /\ gameState = InitialGameState
    /\ baseState = InitialGameState
    /\ queue = <<>>
    /\ timers = EmptyBag
    /\ cleanup = EmptyBag
    /\ step = [name |-> "init", from |-> "idle", plies |-> 0, pending |-> 0]
    /\ pausedAt = NewChess

\* A click or change handler: its update is rendered synchronously, on top
\* of the committed state; updates queued earlier by a timer callback keep
\* waiting for their own render, which then applies the whole queue in call
\* order (React rebases the handler's update behind them).
Dispatch(u) ==
    \E new \in {applyUpdate(gameState, u)} :
        /\ gameState' = new
        /\ IF queue = <<>>
           THEN queue' = <<>> /\ baseState' = new
           ELSE queue' = Append(queue, u) /\ UNCHANGED baseState
        /\ Commit(gameState, new)

\* onClick of the Play button (shown while the game is not active).
startGame ==
    /\ ~gameState.isGameActive
    /\ Len(queue) < MaxQueue
    /\ Dispatch([type |-> "start"])
    /\ Ran("start")

\* onClick of the Pause button (shown while the game is active).
pauseGame ==
    /\ gameState.isGameActive
    /\ Len(queue) < MaxQueue
    /\ Dispatch([type |-> "pause"])
    /\ Ran("pause")

\* onClick of the Reset button. Its update replaces the state whatever the
\* updates queued before it produce, so these are dropped from the queue.
resetGame ==
    /\ gameState' = resetUpdate
    /\ IF queue = <<>>
       THEN queue' = <<>> /\ baseState' = resetUpdate
       ELSE queue' = <<[type |-> "reset"]>> /\ UNCHANGED baseState
    /\ Commit(gameState, resetUpdate)
    /\ Ran("reset")

\* onChange of the Game Speed input.
handleSpeedChange(newSpeed) ==
    /\ newSpeed # gameState.gameSpeed
    /\ Len(queue) < MaxQueue
    /\ Dispatch([type |-> "speed", speed |-> newSpeed])
    /\ Ran("speed")

\* newCapturedPieces[capturingColor].push(capturedPiece), when the move captured.
pushCaptured(capturedPieces, moveResult) ==
    IF moveResult.captured # "-"
    THEN [capturedPieces EXCEPT
             ![IF moveResult.color = "w" THEN "white" ELSE "black"] =
                 Append(@, moveResult.captured)]
    ELSE capturedPieces

\* The setTimeout callback of the effect. It runs on the state its closure
\* captured and pushes a captured piece onto the array that state holds (the
\* spread copies the capturedPieces object, not its arrays), then queues the
\* move update. A timer is armed after the render task of any queued update
\* was posted, with a positive delay: it fires after that render.
timerCallback(t) ==
    /\ BagIn(t, timers)
    /\ queue = <<>>
    /\ \E newGame \in {ChessFromFen(fen(t.game))} :
       \E candidates \in {sanMoves(newGame)} :
          IF candidates = {}
          THEN UNCHANGED <<gameState, baseState, queue>>
          ELSE \E roll \in Rolls :
               \E move \in generateAIMove({sm.san : sm \in candidates}, roll) :
               \E moveResult \in {sm.move : sm \in {c \in candidates : c.san = move}} :
               \E pushed \in {pushCaptured(gameState.capturedPieces, moveResult)} :
                  /\ Explored(Append(gameState.gameHistory, move))
                  /\ gameState' = [gameState EXCEPT !.capturedPieces = pushed]
                  /\ baseState' = gameState'
                  /\ queue' = <<[type |-> "move",
                                 game |-> makeMove(newGame, moveResult),
                                 move |-> move,
                                 capturedPieces |-> pushed]>>
    /\ timers' = timers (-) SetToBag({t})
    /\ UNCHANGED cleanup
    /\ Ran("timer")

\* The states a tick leaves once its move is rendered, when it runs on state
\* s and the policy returns `san`: none when the policy cannot return it.
tickStates(s, san) ==
    IF armed(s) = EmptyBag THEN {}
    ELSE
    UNION {UNION {{moveUpdate([s EXCEPT !.capturedPieces = pushed],
                              [type |-> "move",
                               game |-> makeMove(ChessFromFen(fen(s.game)), sm.move),
                               move |-> san,
                               capturedPieces |-> pushed]) :
                      pushed \in {pushCaptured(s.capturedPieces, sm.move)}} :
                  sm \in {c \in candidates :
                            /\ c.san = san
                            /\ \E roll \in Rolls :
                                  san \in generateAIMove({x.san : x \in candidates}, roll)}} :
              candidates \in {sanMoves(ChessFromFen(fen(s.game)))}}

\* The states after the ticks that play `history`, one after the other.
RECURSIVE afterTicks(_, _)
afterTicks(states, history) ==
    IF history = <<>> THEN states
    ELSE UNION {afterTicks(next, rest) :
                   next \in {UNION {tickStates(s, Head(history)) : s \in states}},
                   rest \in {Tail(history)}}

\* React renders the queued updates.
Render ==
    /\ queue # <<>>
    /\ \E new \in {applyQueue(baseState, queue)} :
          /\ gameState' = new
          /\ baseState' = new
          /\ Commit(gameState, new)
    /\ queue' = <<>>
    /\ Ran("render")

Next ==
    \/ startGame
    \/ pauseGame
    \/ resetGame
    \/ \E v \in SpeedInputs : handleSpeedChange(v)
    \/ \E t \in BagToSet(timers) : timerCallback(t)
    \/ Render

Spec == Init /\ [][Next]_vars

(***************************************************************************)
(* A session that was started and stays active: no pause, no reset, and    *)
(* timers that fire. It is taken up after the plies of a continuation.     *)
(***************************************************************************)
\* The session after startGame and the ticks that play one of `games`.
TakenUp(games) ==
    /\ gameState \in UNION {afterTicks({startUpdate(InitialGameState)}, c.played) :
                               c \in games}
    /\ baseState = gameState
    /\ queue = <<>>
    /\ timers = armed(gameState)
    /\ cleanup = timers
    /\ step = [name |-> "render", from |-> "active",
               plies |-> Len(gameState.gameHistory) - 1, pending |-> 0]
    /\ pausedAt = NewChess

LiveInit == TakenUp(LiveGames)

LiveNext ==
    \/ \E v \in SpeedInputs : handleSpeedChange(v)
    \/ \E t \in BagToSet(timers) : timerCallback(t)
    \/ Render

LiveSpec ==
    /\ LiveInit
    /\ [][LiveNext]_vars
    /\ WF_vars(\E t \in BagToSet(timers) : timerCallback(t))
    /\ WF_vars(Render)

(***************************************************************************)
(* The policy on a board of a long game: the session is taken up active    *)
(* after the plies of ThreeKnightsGame.                                    *)
(***************************************************************************)
PolicyInit == TakenUp(PolicyGames)

PolicySpec == PolicyInit /\ [][LiveNext]_vars

(***************************************************************************)
(* Properties                                                              *)
(***************************************************************************)
\* Chess.move(san) on an object that keeps its record of positions.
move(g, san) ==
    CHOOSE after \in {makeMove(g, sm.move) : sm \in {c \in sanMoves(g) : c.san = san}} :
        TRUE

\* The game a history of moves gives when it is played on one Chess object.
RECURSIVE replay(_, _)
replay(g, history) ==
    IF history = <<>> THEN g ELSE replay(move(g, Head(history)), Tail(history))

\* Some position tuple (placement, side to move, castling rights, en-passant
\* target) occurs three times among the boards of the game.
occurredThrice(g) ==
    \E i \in DOMAIN g.positions :
        Cardinality({j \in DOMAIN g.positions : g.positions[j] = g.positions[i]}) >= 3

\* The number of plies the FEN of a game says were played from the start.
pliesOf(g) == 2 * (g.moveNumber - 1) + (IF g.turn = "b" THEN 1 ELSE 0)

\* The move updates waiting in a queue.
moveUpdates(q) == {i \in DOMAIN q : q[i].type = "move"}

\* A fresh idle session.
fresh(s) ==
    /\ ~s.isGameActive
    /\ s.game.board = StartBoard
    /\ turn(s.game) = "w"
    /\ s.gameHistory = <<>>
    /\ s.capturedPieces.white = <<>>
    /\ s.capturedPieces.black = <<>>

\* C1: once a position tuple has occurred three times among the boards of
\* the current game, the session is finished as a draw: the game-over test
\* that guards the tick is true and no move timer is armed.
C1_ThreefoldFinishes ==
    \E played \in {replay(NewChess, gameState.gameHistory)} :
        occurredThrice(played) =>
            isGameOver(gameState.game) /\ timers = EmptyBag

\* C2: once the status has left active (pause or reset), no move that a timer
\* of the active period scheduled becomes visible: while the session is not
\* active the history gets no entry, the board changes only to the starting
\* position and the capture lists get no entry.
C2_NoMoveAfterLeavingActive ==
    [][~gameState.isGameActive =>
          /\ Len(gameState'.gameHistory) <= Len(gameState.gameHistory)
          /\ gameState'.game \in {gameState.game, NewChess}
          /\ \A c \in {"white", "black"} :
                Len(gameState'.capturedPieces[c]) <= Len(gameState.capturedPieces[c])]_vars

\* C3 (as stated): a reset issued while a delay is pending discards the
\* pending move and leaves the board that was current when the delay began.
C3_ResetRestoresPreDelayBoard ==
    [][(step'.name = "reset" /\ timers # EmptyBag) =>
          /\ timers' = EmptyBag
          /\ \A t \in BagToSet(timers) : gameState'.game.board = t.game.board]_vars

\* C3 (amended): a reset issued while a delay is pending, or while the move
\* of a fired timer waits to be rendered, discards that move: no timer stays
\* pending, and the state displayed and the state the queued updates give
\* are the initial one, with the board at the starting position whatever the
\* board before the delay.
C3_ResetDiscardsPendingMove ==
    [][(step'.name = "reset" /\ (timers # EmptyBag \/ queue # <<>>)) =>
          /\ timers' = EmptyBag
          /\ gameState' = InitialGameState
          /\ applyQueue(baseState', queue') = InitialGameState]_vars

\* A reset was issued while a delay was pending after at least one move.
C3_Witness ==
    /\ step.name = "reset"
    /\ step.from = "active"
    /\ step.pending = 1
    /\ step.plies > 0
    /\ gameState.game = NewChess
    /\ timers = EmptyBag

\* C4: reset is enabled in every reachable state, and it always yields a
\* fresh idle session: not active, the board at the starting position with
\* white to move, an empty history and empty capture lists, in the state
\* displayed and in the state the queued updates give.
C4_ResetAlwaysFresh ==
    /\ [](ENABLED resetGame)
    /\ [][step'.name = "reset" =>
             /\ fresh(gameState')
             /\ fresh(applyQueue(baseState', queue'))]_vars

\* A finished game was reset.
C4_Witness ==
    /\ step.name = "reset"
    /\ step.from = "finished"
    /\ step.plies > 0
    /\ fresh(gameState)

\* C5 (terminal is what the board itself shows: isGameOver() of the game
\* displayed, i.e. checkmate, stalemate or a draw that game reports; a
\* repetition the game has no record of is the matter of C1):
\* once the board displayed is terminal by the game-over test, no timer
\* is pending and no move waits, and no step other than a reset changes the
\* board, the history or the capture lists.
C5_TerminalHalts ==
    /\ [](isGameOver(gameState.game) =>
             timers = EmptyBag /\ moveUpdates(queue) = {})
    /\ [][(isGameOver(gameState.game) /\ step'.name # "reset") =>
             /\ gameState'.game = gameState.game
             /\ gameState'.gameHistory = gameState.gameHistory
             /\ gameState'.capturedPieces = gameState.capturedPieces]_vars

\* Play was clicked on a finished game, which stayed as it was.
C5_Witness ==
    /\ step.name = "start"
    /\ step.from = "finished"
    /\ gameState.isGameActive
    /\ isCheckmate(gameState.game)
    /\ timers = EmptyBag

\* C6: in every state displayed, the history has as many entries as plies
\* were applied to the starting position to obtain the board.
C6_BoardHistoryConsistent ==
    /\ Len(gameState.gameHistory) = pliesOf(gameState.game)
    /\ gameState.gameHistory = <<>> => fen(gameState.game) = DEFAULT_POSITION

\* A move was just rendered: the board and the history changed together.
C6_Witness ==
    /\ step.name = "render"
    /\ Len(gameState.gameHistory) = step.plies + 1
    /\ Len(gameState.gameHistory) >= 2

\* C7: for the move list of the board of a tick, the policy returns members
\* of the list only, and captures only when the list has a capturing move;
\* the move a tick queues, and the move a render applies, is a legal move of
\* the board displayed, made on that board.
C7_PolicyPicksLegalCapture ==
    /\ [][(step'.name = "timer" /\ queue' # <<>>) =>
             \E legal \in {sanMoves(gameState.game)} :
                /\ \A roll \in Rolls :
                   \A m \in generateAIMove({sm.san : sm \in legal}, roll) :
                      \E sm \in legal :
                         /\ sm.san = m
                         /\ (\E c \in legal : c.move.captured # "-")
                               => sm.move.captured # "-"
                /\ \E sm \in legal :
                      /\ sm.san = queue'[1].move
                      /\ fen(queue'[1].game) = fen(makeMove(gameState.game, sm.move))
                      /\ (\E c \in legal : c.move.captured # "-")
                            => sm.move.captured # "-"]_vars
    /\ [][Len(gameState'.gameHistory) > Len(gameState.gameHistory) =>
             \E sm \in sanMoves(gameState.game) :
                /\ gameState'.gameHistory = Append(gameState.gameHistory, sm.san)
                /\ fen(gameState'.game) = fen(makeMove(gameState.game, sm.move))]_vars

\* A tick chose a capture on a board that also has moves that do not capture.
C7_Witness ==
    /\ step.name = "timer"
    /\ queue # <<>>
    /\ includes(queue[1].move, "x")
    /\ \E sm \in sanMoves(gameState.game) : sm.move.captured = "-"

\* C8: the configured delay is within 500..5000 ms in every state.
C8_DelayWithinRange == gameState.gameSpeed \in 500..5000

\* C9: a pause changes nothing but the status, and a start that follows it
\* schedules the next move from the board that was current at the pause.
C9_PauseOnlyChangesStatus ==
    /\ [][step'.name = "pause" =>
             gameState' = [gameState EXCEPT !.isGameActive = FALSE]]_vars
    /\ [][(step'.name = "start" /\ step'.from = "paused") =>
             /\ gameState'.game = pausedAt
             /\ \A t \in BagToSet(timers') : t.game = pausedAt]_vars

\* C10: at most one move timer is pending; a timer is pending only while the
\* session is active and the board displayed, which is the board of the
\* timer, is not terminal; a timer that fires is gone and queues at most one
\* move, and no step adds more than one move to the history.
C10_OneMoveInFlight ==
    /\ [](/\ BagCardinality(timers) <= 1
          /\ Cardinality(moveUpdates(queue)) <= 1
          /\ \A t \in BagToSet(timers) :
                /\ gameState.isGameActive
                /\ ~isGameOver(gameState.game)
                /\ t.game = gameState.game)
    /\ [][/\ Len(gameState'.gameHistory) <= Len(gameState.gameHistory) + 1
          /\ step'.name = "timer" =>
                /\ BagCardinality(timers') = BagCardinality(timers) - 1
                /\ Cardinality(moveUpdates(queue')) <= 1]_vars

\* The delay was changed while a timer was pending: the timer was replaced.
C10_Witness ==
    /\ step.name = "speed"
    /\ step.pending = 1
    /\ step.plies > 0
    /\ BagCardinality(timers) = 1


\* The number of capturing moves in a history.
captureCount(history) ==
    Cardinality({i \in DOMAIN history : includes(history[i], "x")})

\* C11: in every state the two capture lists together have as many entries
\* as the history of the current game has capturing moves (each capturing
\* move adds one entry, no other move adds any).
C11_CaptureListsMatchHistory ==
    Len(gameState.capturedPieces.white) + Len(gameState.capturedPieces.black)
        = captureCount(gameState.gameHistory)

\* C12: a tick leaves the state that was current before it as it was: its
\* board, its history and both its capture lists have the same values after
\* the timer callback ran.
C12_TickKeepsSnapshot ==
    [][step'.name = "timer" =>
          /\ gameState'.game = gameState.game
          /\ gameState'.gameHistory = gameState.gameHistory
          /\ gameState'.capturedPieces.white = gameState.capturedPieces.white
          /\ gameState'.capturedPieces.black = gameState.capturedPieces.black]_vars

\* C15: in every state currentPlayer is the side to move of the board, and
\* it is white exactly when the history has an even number of entries.
C15_CurrentPlayerIsSideToMove ==
    /\ gameState.currentPlayer = (IF turn(gameState.game) = "w" THEN "white" ELSE "black")
    /\ gameState.currentPlayer = "white" <=> Len(gameState.gameHistory) % 2 = 0

\* A white move was just rendered: black is to move.
C15_Witness ==
    /\ step.name = "render"
    /\ Len(gameState.gameHistory) = step.plies + 1
    /\ Len(gameState.gameHistory) >= 3
    /\ gameState.currentPlayer = "black"

\* What is left to a game before no capture and no pawn move is possible
\* any more: its pieces, and the steps its pawns have to their last rank.
remaining(g) ==
    Cardinality({s \in Squares : g.board[s] # Empty})
    + Cardinality({p \in Squares \X (1..7) :
                     /\ g.board[p[1]].type = "p"
                     /\ p[2] <= (IF g.board[p[1]].color = "w"
                                 THEN 7 - Rank(p[1]) ELSE Rank(p[1]))})

\* C14: a session that was started and stays active, with timers that fire,
\* reaches a terminal board and stays there with no timer pending. The
\* halfmove clock never passes 100, and every move applied either is a
\* capture or pawn move, which sets the clock to 0 and leaves less to the
\* game, or adds one to the clock carried over from the board before.
C14_GameTerminates ==
    /\ <>[](isGameOver(gameState.game) /\ timers = EmptyBag /\ moveUpdates(queue) = {})
    /\ [](gameState.game.halfMoves <= 100)
    /\ [][Len(gameState'.gameHistory) > Len(gameState.gameHistory) =>
             \/ /\ remaining(gameState'.game) < remaining(gameState.game)
                /\ gameState'.game.halfMoves = 0
             \/ /\ remaining(gameState'.game) = remaining(gameState.game)
                /\ gameState'.game.halfMoves = gameState.game.halfMoves + 1]_vars

\* The hundredth move in a row without capture or pawn move ended the game.
C14_Witness ==
    /\ gameState.game.halfMoves = 100
    /\ gameState.isGameActive
    /\ isGameOver(gameState.game)
    /\ ~isCheckmate(gameState.game)
    /\ timers = EmptyBag

\* The legal moves of a list that go to one of the squares d4, d5, e4, e5.
toCenter(legal) ==
    {sm \in legal : algebraic(sm.move.to) \in {"d4", "d5", "e4", "e5"}}

\* C13: on the board of every pending tick on which no legal move captures,
\* the moves the policy treats as center moves are exactly the legal moves
\* that go to d4, d5, e4 or e5; the policy returns one of these when the
\* center tier is taken and there is one, and any legal move otherwise.
C13_CenterTierIsCenterDestinations ==
    \A t \in BagToSet(timers) :
    \A legal \in {sanMoves(ChessFromFen(fen(t.game)))} :
    \A list \in {{sm.san : sm \in legal}} :
        (\A sm \in legal : sm.move.captured = "-") =>
            /\ centerMoves(list) = {sm.san : sm \in toCenter(legal)}
            /\ \A roll \in Rolls :
                  generateAIMove(list, roll) =
                      IF toCenter(legal) # {} /\ roll > 7
                      THEN {sm.san : sm \in toCenter(legal)}
                      ELSE list

=============================================================================
